---- MODULE Spec2Model ----
(***************************************************************************)
(* Model of scripts/export_bookstack.py: the BookStack page exporter.      *)
(*                                                                         *)
(* Text is modelled as a sequence of one-character strings, so that the    *)
(* string helpers (strip, re.sub, slicing, formatting) are computed and    *)
(* not assumed.  An optional value (a Python None) is the empty tuple,     *)
(* a present value v is the one-element tuple <<v>>.                       *)
(***************************************************************************)
EXTENDS Integers, Sequences, FiniteSets, TLC

VARIABLES
    pc,          \* position of the running process in the script
    runs,        \* number of processes started so far
    shellEnv,    \* environment the shell hands to every process
    env,         \* os.environ of the running process
    dotenv,      \* the repo .env file: None or <<lines>>
    table,       \* the pages table joined to books/chapters: id -> row
    preferMd,    \* not args.html
    rows,        \* df: the fetched rows
    i,           \* index of the next row of the export loop
    exports,     \* the list of export records
    dirs,        \* directories on disk (resolved paths)
    files,       \* page files on disk: resolved path -> content
    manifest,    \* the file out_dir/_index.csv: None or <<csv rows>>
    wrote,       \* paths given to write_text by this process, in order
    idxWrites,   \* number of to_csv calls of this process
    connects,    \* number of pymysql.connect calls of this process
    err,         \* the list of names in the SystemExit message
    prev,        \* disk state left by the previous process when it completed
    probe        \* helper under test in the helper specifications

vars == <<pc, runs, shellEnv, env, dotenv, table, preferMd, rows, i, exports,
          dirs, files, manifest, wrote, idxWrites, connects, err, prev, probe>>

-----------------------------------------------------------------------------
(* Bounds *)

MaxPages == 2      \* rows of the pages table
MaxRuns == 2       \* processes started one after the other
MaxAffix == 2      \* characters varied at each end of a sanitized name
MaxText == 3       \* length of the markdown / html fields of the selector

(* Program constants *)

MaxNameLen == 120
IdWidth == 6

-----------------------------------------------------------------------------
(* Optional values *)

None == << >>

Some(v) == << v >>

Min(a, b) == IF a < b THEN a ELSE b

(* Characters *)

Letters ==
    {"a","b","c","d","e","f","g","h","i","j","k","l","m",
     "n","o","p","q","r","s","t","u","v","w","x","y","z",
     "A","B","C","D","E","F","G","H","I","J","K","L","M",
     "N","O","P","Q","R","S","T","U","V","W","X","Y","Z"}

DigitChars == <<"0","1","2","3","4","5","6","7","8","9">>

Digits == {DigitChars[d] : d \in 1..10}

\* regex \w
IsWord(c) == c \in Letters \cup Digits \cup {"_"}

\* regex \s, and the characters str.strip() removes
IsSpace(c) == c \in {" ", "\t", "\n"}

\* str.strip()
Strip(s) ==
    LET solid == {k \in 1..Len(s) : ~IsSpace(s[k])}
    IN  IF solid = {} THEN << >>
        ELSE SubSeq(s, CHOOSE k \in solid : \A j \in solid : k <= j,
                       CHOOSE k \in solid : \A j \in solid : k >= j)

\* .replace("/", "-")
ReplaceSlash(s) == [k \in 1..Len(s) |-> IF s[k] = "/" THEN "-" ELSE s[k]]

\* the class [\w\-\s.] of characters that are kept
KeptChar(c) == IsWord(c) \/ c = "-" \/ IsSpace(c) \/ c = "."

KeptCharNoUnderscore(c) == (IsWord(c) /\ c # "_") \/ c = "-" \/ IsSpace(c) \/ c = "."

\* re.sub(r"[^\w\-\s.]", "", name)
RemoveUnsafeAscii(s) == SelectSeq(s, KeptCharNoUnderscore)

RemoveUnsafe(s) == SelectSeq(s, KeptChar)

\* re.sub(r"\s+", "_", name): the first character of a run of whitespace
\* becomes "_", the rest of the run goes
CollapseSpace(s) ==
    LET sub == [k \in 1..Len(s) |->
                  IF ~IsSpace(s[k]) THEN s[k]
                  ELSE IF k > 1 /\ IsSpace(s[k - 1]) THEN "" ELSE "_"]
    IN  SelectSeq(sub, LAMBDA c : c # "")

Untitled == <<"u","n","t","i","t","l","e","d">>

\* name[:120]
Truncate(s) == SubSeq(s, 1, Min(Len(s), MaxNameLen))

SafeNameNoPlaceholder(name) ==
    Truncate(CollapseSpace(RemoveUnsafe(ReplaceSlash(Strip(name)))))

\* _safe_name
SafeName(name) ==
    LET cut == Truncate(CollapseSpace(RemoveUnsafe(ReplaceSlash(Strip(name)))))
    IN  IF cut = << >> THEN Untitled ELSE cut

\* x or "" for an optional string
OrEmpty(o) == IF o = None THEN << >> ELSE o[1]

Md == <<"m","d">>

Html == <<"h","t","m","l">>

PickContentUntrimmedTest(row, prefer_markdown) ==
    LET md == Strip(OrEmpty(row.markdown))
        html == Strip(OrEmpty(row.html))
    IN  IF prefer_markdown /\ OrEmpty(row.markdown) # << >> THEN <<md, Md>> ELSE <<html, Html>>

\* _pick_content
PickContent(row, prefer_markdown) ==
    LET md == Strip(OrEmpty(row.markdown))
        html == Strip(OrEmpty(row.html))
    IN  IF prefer_markdown /\ md # << >> THEN <<md, Md>> ELSE <<html, Html>>

-----------------------------------------------------------------------------
(* Paths: a path is a sequence of components, a component is text *)

\* args.out, relative to the working directory
OutDir == << <<"o","u","t">> >>

\* the working directory of the process
Cwd == << <<"w">> >>

Dot == <<".">>

DotDot == <<".", ".">>

\* pathlib's "/" operator: a "." component is dropped, ".." is kept
PathJoin(p, c) == IF c = Dot THEN p ELSE Append(p, c)

\* the file the operating system opens for an absolute path
RECURSIVE Resolve(_)
Resolve(p) ==
    IF p = << >> THEN << >>
    ELSE LET up == Resolve(SubSeq(p, 1, Len(p) - 1))
             c == p[Len(p)]
         IN  IF c = Dot THEN up
             ELSE IF c = DotDot
                  THEN (IF up = << >> THEN << >> ELSE SubSeq(up, 1, Len(up) - 1))
                  ELSE Append(up, c)

Abs(p) == Resolve(Cwd \o p)

\* Path.mkdir(parents=True, exist_ok=True): the directories it leaves on disk
MkdirP(p) == {Abs(SubSeq(p, 1, k)) : k \in 0..Len(p)}

IndexName == <<"_","i","n","d","e","x",".","c","s","v">>

\* out_dir / "_index.csv"
IndexPath == PathJoin(OutDir, IndexName)

NoBook == <<"N","o","_","B","o","o","k">>

\* "{:06d}".format(n)
RECURSIVE ToDigits(_)
ToDigits(n) ==
    IF n < 10 THEN <<DigitChars[n + 1]>>
    ELSE ToDigits(n \div 10) \o <<DigitChars[(n % 10) + 1]>>

FormatId(n) ==
    LET d == ToDigits(n)
    IN  [k \in 1..(IdWidth - Min(Len(d), IdWidth)) |-> "0"] \o d

\* subdir of a row (lines 163-167)
SubDir(row) ==
    LET book_dir == SafeName(IF OrEmpty(row.book_name) = << >> THEN NoBook
                             ELSE row.book_name[1])
    IN  IF OrEmpty(row.chapter_name) # << >>
        THEN PathJoin(PathJoin(OutDir, book_dir), SafeName(row.chapter_name[1]))
        ELSE PathJoin(OutDir, book_dir)

FileNameNoId(row, ext) ==
    <<"_">> \o SafeName(OrEmpty(row.name)) \o <<".">> \o ext

\* fname of a row (line 171)
FileName(row, ext) ==
    FormatId(row.id) \o <<"_">> \o SafeName(OrEmpty(row.name)) \o <<".">> \o ext

\* fpath of a row (line 172)
FilePath(row, prefer_markdown) ==
    PathJoin(SubDir(row), FileName(row, PickContent(row, prefer_markdown)[2]))

WriteTextAppend(fs, target, content) ==
    [p \in DOMAIN fs \cup {target} |->
        IF p = target
        THEN (IF p \in DOMAIN fs THEN fs[p] \o content ELSE content)
        ELSE fs[p]]

\* Path.write_text: create or overwrite
WriteText(fs, target, content) ==
    [p \in DOMAIN fs \cup {target} |-> IF p = target THEN content ELSE fs[p]]

\* the dict appended to exports (lines 175-186)
ExportRecord(row, prefer_markdown) ==
    [page_id |-> row.id, book |-> row.book_name, chapter |-> row.chapter_name,
     name |-> row.name, slug |-> row.slug,
     path |-> FilePath(row, prefer_markdown),
     ext |-> PickContent(row, prefer_markdown)[2],
     updated_at |-> row.updated_at]

\* the keys of an export record, in insertion order
ExportKeys ==
    <<"page_id", "book", "chapter", "name", "slug", "path", "ext", "updated_at">>

\* pd.DataFrame(exports).to_csv(index=False): the columns of a frame built
\* from a list of dicts are the keys of the dicts; an empty list has none
ToCsv(recs) ==
    [header |-> Some(IF recs = << >> THEN << >> ELSE ExportKeys),
     body |-> [k \in 1..Len(recs) |->
                 [c \in 1..Len(ExportKeys) |-> recs[k][ExportKeys[c]]]]]

\* a file that was opened for writing and received nothing
EmptyFile == [header |-> None, body |-> << >>]

-----------------------------------------------------------------------------
(* Configuration *)

\* os.environ.get(k)
EnvGet(e, k) == IF k \in DOMAIN e THEN Some(e[k]) ELSE None

\* os.environ[k] = v
EnvSet(e, k, v) == [x \in DOMAIN e \cup {k} |-> IF x = k THEN v ELSE e[x]]

Quotes == {"\"", "'"}

\* get_key (lines 50-61): the first line "key=...", stripped and unquoted
GetKey(lines, key) ==
    LET hits == SelectSeq(lines, LAMBDA l : l.key = key)
    IN  IF hits = << >> THEN None
        ELSE LET val == Strip(hits[1].raw)
             IN  IF val # << >> /\ val[1] \in Quotes /\ val[Len(val)] = val[1]
                 THEN Some(SubSeq(val, 2, Len(val) - 1))
                 ELSE Some(val)

\* one "if not os.environ.get(...)" block of lines 63-74
Fallback(e, lines, var, key) ==
    IF OrEmpty(EnvGet(e, var)) = << >> /\ OrEmpty(GetKey(lines, key)) # << >>
    THEN EnvSet(e, var, GetKey(lines, key)[1])
    ELSE e

\* _load_repo_env_fallbacks, given what read_text returned
LoadRepoEnvFallbacks(e, content) ==
    IF content = None THEN e
    ELSE Fallback(Fallback(Fallback(e, content[1], "BS_DB_NAME", "DB_DATABASE"),
                           content[1], "BS_DB_USER", "DB_USERNAME"),
                  content[1], "BS_DB_PASS", "DB_PASSWORD")

RequiredVarsNoPass == <<"BS_DB_HOST", "BS_DB_NAME", "BS_DB_USER">>

\* the tuple iterated at line 102
RequiredVars == <<"BS_DB_HOST", "BS_DB_NAME", "BS_DB_USER", "BS_DB_PASS">>

\* the list "missing" of _connect (lines 101-104)
MissingVars(e) == SelectSeq(RequiredVars, LAMBDA k : OrEmpty(EnvGet(e, k)) = << >>)

\* int(text) succeeds
IsIntText(s) == Strip(s) # << >> /\ \A k \in 1..Len(Strip(s)) : Strip(s)[k] \in Digits

\* int(os.environ.get("BS_DB_PORT", 3306)) raises ValueError
BadPort(e) == "BS_DB_PORT" \in DOMAIN e /\ ~IsIntText(e["BS_DB_PORT"])

-----------------------------------------------------------------------------
(* The query of fetch_pages *)

\* position of a character in the collation of the server
Collation ==
    <<"\t", "\n", " ", "\"", "'", "*", "-", ".", "/", ":", "?", "_",
      "0","1","2","3","4","5","6","7","8","9",
      "a","A","b","B","c","C","d","D","e","E","f","F","g","G","h","H","i","I",
      "j","J","k","K","l","L","m","M","n","N","o","O","p","P","q","Q","r","R",
      "s","S","t","T","u","U","v","V","w","W","x","X","y","Y","z","Z">>

Rank(c) == CHOOSE k \in 1..Len(Collation) : Collation[k] = c

\* -1, 0, 1 as text a sorts before, with or after text b
RECURSIVE CmpText(_, _)
CmpText(a, b) ==
    IF a = << >> THEN (IF b = << >> THEN 0 ELSE -1)
    ELSE IF b = << >> THEN 1
    ELSE IF Rank(Head(a)) < Rank(Head(b)) THEN -1
    ELSE IF Rank(Head(a)) > Rank(Head(b)) THEN 1
    ELSE CmpText(Tail(a), Tail(b))

\* NULL sorts first
CmpOpt(a, b) ==
    IF a = None THEN (IF b = None THEN 0 ELSE -1)
    ELSE IF b = None THEN 1
    ELSE CmpText(a[1], b[1])

\* ORDER BY b.name, c.name, p.name, p.id
RowBefore(r, q) ==
    LET cb == CmpOpt(r.book_name, q.book_name)
        cc == CmpOpt(r.chapter_name, q.chapter_name)
        cn == CmpOpt(r.name, q.name)
    IN  \/ cb < 0
        \/ cb = 0 /\ cc < 0
        \/ cb = 0 /\ cc = 0 /\ cn < 0
        \/ cb = 0 /\ cc = 0 /\ cn = 0 /\ r.id < q.id

\* a row of the result set
ResultRow(t, id) ==
    [id |-> id, name |-> t[id].name, slug |-> t[id].slug, draft |-> t[id].draft,
     html |-> t[id].html, markdown |-> t[id].markdown,
     updated_at |-> t[id].updated_at, book_name |-> t[id].book_name,
     chapter_name |-> t[id].chapter_name]

RECURSIVE OrderRows(_)
OrderRows(S) ==
    IF S = {} THEN << >>
    ELSE LET first == CHOOSE r \in S : \A q \in S \ {r} : RowBefore(r, q)
         IN  <<first>> \o OrderRows(S \ {first})

QueryWithDrafts(t) == OrderRows({ResultRow(t, id) : id \in DOMAIN t})

\* the SELECT of lines 132-143
Query(t) == OrderRows({ResultRow(t, id) : id \in {x \in DOMAIN t : t[x].draft = 0}})

-----------------------------------------------------------------------------
(* Inputs *)

PageIds == 1..MaxPages

RowShapes ==
    { [name |-> Some(<<"P">>), slug |-> "p", draft |-> 0,
       markdown |-> Some(<<" ", "x">>), html |-> Some(<<"y">>),
       updated_at |-> "t1", book_name |-> Some(<<"B">>), chapter_name |-> None],
      [name |-> Some(<<"P">>), slug |-> "p", draft |-> 0,
       markdown |-> Some(<< >>), html |-> Some(<<"y", "\n">>),
       updated_at |-> "t2", book_name |-> Some(<<"B">>),
       chapter_name |-> Some(<<"C", " ", "1">>)],
      [name |-> Some(<< >>), slug |-> "", draft |-> 0,
       markdown |-> None, html |-> None,
       updated_at |-> "t3", book_name |-> None, chapter_name |-> None],
      [name |-> Some(<<"a", "/", "b">>), slug |-> "a-b", draft |-> 0,
       markdown |-> Some(<<"x">>), html |-> Some(<< >>),
       updated_at |-> "t4", book_name |-> Some(DotDot), chapter_name |-> None],
      [name |-> Some(<<"Q", "?">>), slug |-> "q", draft |-> 0,
       markdown |-> Some(<<"x">>), html |-> Some(<<"y">>),
       updated_at |-> "t5", book_name |-> Some(Dot), chapter_name |-> Some(DotDot)],
      [name |-> Some(<<"D">>), slug |-> "d", draft |-> 1,
       markdown |-> Some(<<"x">>), html |-> Some(<<"y">>),
       updated_at |-> "t6", book_name |-> Some(<<"B">>), chapter_name |-> None] }

Tables == UNION {[S -> RowShapes] : S \in SUBSET PageIds}

\* a table with a page in a chapter and a page directly in a book
SampleTable ==
    [id \in {1, 2} |->
        CHOOSE r \in RowShapes :
            /\ r.draft = 0
            /\ r.book_name = Some(<<"B">>)
            /\ (r.chapter_name = None) <=> (id = 1)]

EnvVars == {"BS_DB_HOST", "BS_DB_PORT", "BS_DB_NAME", "BS_DB_USER", "BS_DB_PASS"}

\* every variable unset, empty or set
AllEnvs == UNION {[S -> {<< >>, <<"7">>}] : S \in SUBSET EnvVars}

EnvChoices ==
    { [k \in EnvVars \ {"BS_DB_PORT"} |-> <<"7">>],
      [k \in {"BS_DB_HOST", "BS_DB_PORT", "BS_DB_PASS"} |->
          IF k = "BS_DB_PASS" THEN << >> ELSE <<"7">>],
      [k \in {"BS_DB_NAME", "BS_DB_USER", "BS_DB_PASS"} |-> <<"7">>],
      [k \in EnvVars |-> IF k = "BS_DB_PORT" THEN <<"x">> ELSE <<"7">>] }

FullDotenv ==
    << [key |-> "APP_URL", raw |-> <<"u">>],
       [key |-> "DB_DATABASE", raw |-> <<"'", "d", "'">>],
       [key |-> "DB_USERNAME", raw |-> <<"u", " ">>],
       [key |-> "DB_PASSWORD", raw |-> <<"\"", "p", "\"">>],
       [key |-> "DB_PASSWORD", raw |-> <<"q">>] >>

PartialDotenv ==
    << [key |-> "DB_DATABASE", raw |-> <<"d">>],
       [key |-> "DB_PASSWORD", raw |-> <<"'", "'">>] >>

Dotenvs == {None, Some(FullDotenv)}

AllDotenvs == {None, Some(FullDotenv), Some(PartialDotenv)}

-----------------------------------------------------------------------------
(* The script *)

NoFiles == [p \in {} |-> << >>]

InitProcess ==
    /\ pc = "tests"
    /\ env = shellEnv
    /\ preferMd = TRUE
    /\ rows = << >>
    /\ i = 0
    /\ exports = << >>
    /\ wrote = << >>
    /\ idxWrites = 0
    /\ connects = 0
    /\ err = << >>

InitDisk ==
    /\ dirs = {<< >>, Cwd}
    /\ files = NoFiles
    /\ manifest = None
    /\ prev = None
    /\ runs = 1

Init ==
    /\ probe = None
    /\ shellEnv \in EnvChoices
    /\ dotenv \in Dotenvs
    /\ table \in Tables
    /\ InitProcess
    /\ InitDisk

InitConfig ==
    /\ probe = None
    /\ shellEnv \in AllEnvs
    /\ dotenv \in AllDotenvs
    /\ table = SampleTable
    /\ InitProcess
    /\ InitDisk

\* the assertions of _test_safe_name and _test_pick_content
SelfTestsHold ==
    /\ SafeName(<<"A", "/", "B", ":", "C", "*", "D", "?">>) = <<"A", "B", "C", "D">>
    /\ SafeName(<<" ", " ", " ", "H", "e", "l", "l", "o", " ", " ",
                  "W", "o", "r", "l", "d", " ", " ">>)
         = <<"H", "e", "l", "l", "o", "_", "W", "o", "r", "l", "d">>
    /\ PickContent([markdown |-> Some(<<"x">>), html |-> Some(<<"y">>)], TRUE)
         = << <<"x">>, Md >>
    /\ PickContent([markdown |-> Some(<< >>), html |-> Some(<<"y">>)], TRUE)
         = << <<"y">>, Html >>

\* lines 230-231; the interpreter drops assert statements when started with -O
SelfTests ==
    /\ pc = "tests"
    /\ \E asserts_enabled \in BOOLEAN :
          pc' = IF asserts_enabled /\ ~SelfTestsHold THEN "assert_failed" ELSE "main"
    /\ UNCHANGED <<runs, shellEnv, env, dotenv, table, preferMd, rows, i, exports,
                   dirs, files, manifest, wrote, idxWrites, connects, err, prev, probe>>

\* main up to the call of export_pages (lines 205-223)
Main ==
    /\ pc = "main"
    /\ \E html \in BOOLEAN, content \in {None, dotenv} :
          /\ preferMd' = ~html
          /\ env' = LoadRepoEnvFallbacks(env, content)
    /\ pc' = "export"
    /\ UNCHANGED <<runs, shellEnv, dotenv, table, rows, i, exports,
                   dirs, files, manifest, wrote, idxWrites, connects, err, prev, probe>>

\* line 158
MkOutDir ==
    /\ pc = "export"
    /\ dirs' = dirs \cup MkdirP(OutDir)
    /\ pc' = "connect"
    /\ UNCHANGED <<runs, shellEnv, env, dotenv, table, preferMd, rows, i, exports,
                   files, manifest, wrote, idxWrites, connects, err, prev, probe>>

\* _connect raises SystemExit (lines 105-112)
ConfigAbort ==
    /\ pc = "connect"
    /\ MissingVars(env) # << >>
    /\ err' = MissingVars(env)
    /\ pc' = "aborted"
    /\ UNCHANGED <<runs, shellEnv, env, dotenv, table, preferMd, rows, i, exports,
                   dirs, files, manifest, wrote, idxWrites, connects, prev, probe>>

\* int() raises while the arguments of pymysql.connect are evaluated (line 116)
PortAbort ==
    /\ pc = "connect"
    /\ MissingVars(env) = << >>
    /\ BadPort(env)
    /\ pc' = "aborted"
    /\ UNCHANGED <<runs, shellEnv, env, dotenv, table, preferMd, rows, i, exports,
                   dirs, files, manifest, wrote, idxWrites, connects, err, prev, probe>>

\* pymysql.connect or the query raises
ConnectFail ==
    /\ pc = "connect"
    /\ MissingVars(env) = << >>
    /\ ~BadPort(env)
    /\ connects' = connects + 1
    /\ pc' = "aborted"
    /\ UNCHANGED <<runs, shellEnv, env, dotenv, table, preferMd, rows, i, exports,
                   dirs, files, manifest, wrote, idxWrites, err, prev, probe>>

\* fetch_pages returns the frame (lines 144-147, 159-160)
FetchPages ==
    /\ pc = "connect"
    /\ MissingVars(env) = << >>
    /\ ~BadPort(env)
    /\ connects' = connects + 1
    /\ rows' = Query(table)
    /\ exports' = << >>
    /\ i' = 1
    /\ pc' = "loop"
    /\ UNCHANGED <<runs, shellEnv, env, dotenv, table, preferMd,
                   dirs, files, manifest, wrote, idxWrites, err, prev, probe>>

\* mkdir raises: a component of the directory is an existing file
MkdirBlocked(sub) ==
    \E d \in MkdirP(sub) :
        d \in DOMAIN files \/ (manifest # None /\ d = Abs(IndexPath))

\* one iteration of the loop (lines 162-186)
ExportPage ==
    /\ pc = "loop"
    /\ i <= Len(rows)
    /\ LET row == rows[i]
           sub == SubDir(row)
           target == Abs(FilePath(row, preferMd))
       IN  /\ ~MkdirBlocked(sub)
           /\ target \notin dirs \cup MkdirP(sub)
           /\ dirs' = dirs \cup MkdirP(sub)
           /\ files' = WriteText(files, target, PickContent(row, preferMd)[1])
           /\ wrote' = Append(wrote, target)
           /\ exports' = Append(exports, ExportRecord(row, preferMd))
    /\ i' = i + 1
    /\ UNCHANGED <<pc, runs, shellEnv, env, dotenv, table, preferMd, rows,
                   manifest, idxWrites, connects, err, prev, probe>>

ExportPageFailWritesIndex ==
    /\ pc = "loop"
    /\ i <= Len(rows)
    /\ manifest' = Some(ToCsv(exports))
    /\ idxWrites' = idxWrites + 1
    /\ pc' = "aborted"
    /\ UNCHANGED <<runs, shellEnv, env, dotenv, table, preferMd, rows, i, exports,
                   dirs, files, wrote, connects, err, prev, probe>>

\* mkdir or write_text raises in an iteration (lines 168, 173): the exception
\* leaves the loop; write_text may have created, emptied or partly filled the file
ExportPageFail ==
    /\ pc = "loop"
    /\ i <= Len(rows)
    /\ LET row == rows[i]
           sub == SubDir(row)
           target == Abs(FilePath(row, preferMd))
           content == PickContent(row, preferMd)[1]
       IN  \/ UNCHANGED <<dirs, files>>
           \/ /\ ~MkdirBlocked(sub)
              /\ dirs' = dirs \cup MkdirP(sub)
              /\ \/ files' = files
                 \/ /\ target \notin dirs'
                    /\ \E n \in 0..Len(content) :
                          files' = WriteText(files, target, SubSeq(content, 1, n))
    /\ pc' = "aborted"
    /\ UNCHANGED <<runs, shellEnv, env, dotenv, table, preferMd, rows, i, exports,
                   manifest, wrote, idxWrites, connects, err, prev, probe>>

\* lines 188-190 and the summary of line 225
WriteManifest ==
    /\ pc = "loop"
    /\ i > Len(rows)
    /\ Abs(IndexPath) \notin dirs
    /\ manifest' = Some(ToCsv(exports))
    /\ idxWrites' = idxWrites + 1
    /\ pc' = "done"
    /\ UNCHANGED <<runs, shellEnv, env, dotenv, table, preferMd, rows, i, exports,
                   dirs, files, wrote, connects, err, prev, probe>>

\* to_csv raises (line 189)
WriteManifestFail ==
    /\ pc = "loop"
    /\ i > Len(rows)
    /\ \/ manifest' = manifest
       \/ Abs(IndexPath) \notin dirs /\ manifest' = Some(EmptyFile)
    /\ pc' = "aborted"
    /\ UNCHANGED <<runs, shellEnv, env, dotenv, table, preferMd, rows, i, exports,
                   dirs, files, wrote, idxWrites, connects, err, prev, probe>>

\* the script is started again on the same disk and database (lines 228-232)
Restart ==
    /\ pc \in {"done", "aborted", "assert_failed"}
    /\ runs < MaxRuns
    /\ runs' = runs + 1
    /\ prev' = IF pc = "done"
               THEN Some([files |-> files, manifest |-> manifest, dirs |-> dirs,
                          preferMd |-> preferMd])
               ELSE None
    /\ pc' = "tests"
    /\ env' = shellEnv
    /\ preferMd' = TRUE
    /\ rows' = << >>
    /\ i' = 0
    /\ exports' = << >>
    /\ wrote' = << >>
    /\ idxWrites' = 0
    /\ connects' = 0
    /\ err' = << >>
    /\ UNCHANGED <<shellEnv, dotenv, table, dirs, files, manifest, probe>>

Next ==
    \/ SelfTests
    \/ Main
    \/ MkOutDir
    \/ ConfigAbort
    \/ PortAbort
    \/ ConnectFail
    \/ FetchPages
    \/ ExportPage
    \/ ExportPageFail
    \/ WriteManifest
    \/ WriteManifestFail
    \/ Restart

Spec == Init /\ [][Next]_vars

SpecConfig == InitConfig /\ [][Next]_vars

-----------------------------------------------------------------------------
(* The helpers on their own: _safe_name applied once and again, _pick_content *)

NameAlphabet == {"a", " ", "/", "*", ".", "_"}

Affixes == UNION {[1..n -> NameAlphabet] : n \in 0..MaxAffix}

\* lengths of the run of letters between the two varied ends of a name
PadLens == {0, MaxNameLen - 1, MaxNameLen}

NameInputs ==
    {pre \o [k \in 1..n |-> "a"] \o suf : pre \in Affixes, suf \in Affixes, n \in PadLens}

TextAlphabet == {"x", " ", "\n"}

TextInputs == {None} \cup {Some(t) : t \in UNION {[1..n -> TextAlphabet] : n \in 0..MaxText}}

InitIdle ==
    /\ pc = "helper"
    /\ runs = 0
    /\ shellEnv = NoFiles
    /\ env = NoFiles
    /\ dotenv = None
    /\ table = NoFiles
    /\ preferMd = TRUE
    /\ rows = << >>
    /\ i = 0
    /\ exports = << >>
    /\ dirs = {}
    /\ files = NoFiles
    /\ manifest = None
    /\ wrote = << >>
    /\ idxWrites = 0
    /\ connects = 0
    /\ err = << >>
    /\ prev = None

idle == <<pc, runs, shellEnv, env, dotenv, table, preferMd, rows, i, exports,
          dirs, files, manifest, wrote, idxWrites, connects, err, prev>>

InitSafeName ==
    /\ InitIdle
    /\ \E n \in NameInputs :
          probe = [stage |-> "input", name |-> n, once |-> << >>, twice |-> << >>]

\* _safe_name(name)
SanitizeOnce ==
    /\ probe.stage = "input"
    /\ probe' = [probe EXCEPT !.stage = "once", !.once = SafeName(probe.name)]
    /\ UNCHANGED idle

\* _safe_name(_safe_name(name))
SanitizeAgain ==
    /\ probe.stage = "once"
    /\ probe' = [probe EXCEPT !.stage = "twice", !.twice = SafeName(probe.once)]
    /\ UNCHANGED idle

NextSafeName == SanitizeOnce \/ SanitizeAgain

SpecSafeName == InitSafeName /\ [][NextSafeName]_vars

InitPick ==
    /\ InitIdle
    /\ \E m \in TextInputs, h \in TextInputs, b \in BOOLEAN :
          probe = [stage |-> "input", row |-> [markdown |-> m, html |-> h],
                   prefer_markdown |-> b, result |-> << >>]

\* _pick_content(row, prefer_markdown)
Pick ==
    /\ probe.stage = "input"
    /\ probe' = [probe EXCEPT !.stage = "done",
                              !.result = PickContent(probe.row, probe.prefer_markdown)]
    /\ UNCHANGED idle

NextPick == Pick

SpecPick == InitPick /\ [][NextPick]_vars

-----------------------------------------------------------------------------
(* Properties *)

\* t is s without its leading and trailing whitespace
IsTrimOf(t, s) ==
    \E a \in 0..Len(s), b \in 0..Len(s) :
        /\ a + Len(t) + b = Len(s)
        /\ \A k \in 1..a : IsSpace(s[k])
        /\ \A k \in 1..b : IsSpace(s[Len(s) + 1 - k])
        /\ t = SubSeq(s, a + 1, Len(s) - b)
        /\ t # << >> => ~IsSpace(t[1]) /\ ~IsSpace(t[Len(t)])

HasText(s) == \E k \in 1..Len(s) : ~IsSpace(s[k])

\* C2 as stated: the selector returns the Markdown field with the tag
\* "markdown" when Markdown is preferred and the field is not blank, and the
\* HTML field with the tag "html" in every other case.
C2_TagMarkdown ==
    probe.stage = "done" =>
        LET md == OrEmpty(probe.row.markdown)
            html == OrEmpty(probe.row.html)
        IN  probe.result =
                IF probe.prefer_markdown /\ HasText(md)
                THEN <<md, <<"m","a","r","k","d","o","w","n">> >>
                ELSE <<html, <<"h","t","m","l">> >>

\* C2 amended: the selector returns the trimmed Markdown field with the tag
\* "md" when Markdown is preferred and the field is not blank, and the trimmed
\* HTML field with the tag "html" in every other case; a missing field is empty.
C2_PickContent ==
    probe.stage = "done" =>
        LET md == OrEmpty(probe.row.markdown)
            html == OrEmpty(probe.row.html)
        IN  IF probe.prefer_markdown /\ HasText(md)
            THEN IsTrimOf(probe.result[1], md) /\ probe.result[2] = <<"m","d">>
            ELSE IsTrimOf(probe.result[1], html) /\ probe.result[2] = <<"h","t","m","l">>

C2_Witness ==
    /\ probe.stage = "done"
    /\ probe.prefer_markdown
    /\ probe.result[2] = <<"m","d">>
    /\ probe.result[1] # OrEmpty(probe.row.markdown)
    /\ OrEmpty(probe.row.html) # << >>

\* C3: sanitizing a sanitized name returns it unchanged.
C3_Idempotent == probe.stage = "twice" => probe.twice = probe.once

C3_Witness ==
    /\ probe.stage = "twice"
    /\ Len(probe.name) > MaxNameLen
    /\ Len(probe.once) = MaxNameLen
    /\ IsSpace(probe.name[1])
    /\ probe.once[MaxNameLen] = "_"

\* the punctuation characters among the inputs
Punctuation == {"/", "*", ".", "_", "-", ":", "?"}

-----------------------------------------------------------------------------
(* Properties of a run of the script *)

\* the pages the query is to return
Published == {id \in DOMAIN table : table[id].draft = 0}

\* the lines of the manifest after the header
Body == manifest[1].body

\* the content selected for a page under the flag of this process
Selected(id) == PickContent(table[id], preferMd)[1]

\* C1: when export_pages has completed, every fetched page has exactly one
\* written file and exactly one manifest line, the path of the line is the path
\* of that file, the file holds the content selected for the page, and no two
\* pages share a file.
C1_OneFilePerPage ==
    pc = "done" =>
        /\ Len(wrote) = Cardinality(Published)
        /\ Len(Body) = Cardinality(Published)
        /\ \A id \in Published :
              /\ Cardinality({k \in 1..Len(Body) : Body[k][1] = id}) = 1
              /\ \A k \in 1..Len(Body) :
                    Body[k][1] = id =>
                        /\ wrote[k] = Abs(Body[k][6])
                        /\ wrote[k] \in DOMAIN files
                        /\ files[wrote[k]] = Selected(id)
        /\ \A j, k \in 1..Len(wrote) : j # k => wrote[j] # wrote[k]

C1_Witness ==
    /\ pc = "done"
    /\ Len(rows) = 2
    /\ rows[1].name = rows[2].name
    /\ SubDir(rows[1]) = SubDir(rows[2])
    /\ PickContent(rows[1], preferMd) = PickContent(rows[2], preferMd)
    /\ Cardinality(DOMAIN files) >= 2

\* C5: the assertions of the self-tests hold, so the script never stops at
\* them.
C5_SelfTestsPass == pc # "assert_failed"

RequiredSet == {"BS_DB_HOST", "BS_DB_NAME", "BS_DB_USER", "BS_DB_PASS"}

\* the required variables that are unset or empty
MissingSet == {k \in RequiredSet : k \notin DOMAIN env \/ env[k] = << >>}

\* C6: once the fallback step is over, a process with a required variable
\* unset or empty gets no further than the check of _connect: it aborts, the
\* message names exactly the missing variables, and it has opened no
\* connection, fetched no row, and written no page file and no manifest.
C6_ConfigAbort ==
    (pc \notin {"tests", "main", "assert_failed"} /\ MissingSet # {}) =>
        \/ pc \in {"export", "connect"}
        \/ /\ pc = "aborted"
           /\ {err[k] : k \in 1..Len(err)} = MissingSet
           /\ Len(err) = Cardinality(MissingSet)
           /\ connects = 0
           /\ rows = << >>
           /\ wrote = << >>
           /\ idxWrites = 0
           /\ prev # None => files = prev[1].files /\ manifest = prev[1].manifest
           /\ runs = 1 => files = NoFiles /\ manifest = None

C6_Witness ==
    /\ pc = "aborted"
    /\ Len(err) >= 2
    /\ env # shellEnv
    /\ "BS_DB_PASS" \in DOMAIN env
    /\ "BS_DB_PASS" \in MissingSet

\* C7: when the write of the k-th page fails the process aborts there: the
\* k-1 files written before it are on disk with their content, no later page
\* is written, and this process does not write the manifest.
C7_WriteFailure ==
    (pc = "aborted" /\ i \in 1..Len(rows)) =>
        /\ Len(wrote) = i - 1
        /\ \A k \in 1..(i - 1) :
              /\ wrote[k] = Abs(FilePath(rows[k], preferMd))
              /\ wrote[k] \in DOMAIN files
              /\ files[wrote[k]] = PickContent(rows[k], preferMd)[1]
        /\ idxWrites = 0
        /\ prev # None => manifest = prev[1].manifest
        /\ runs = 1 =>
              /\ manifest = None
              /\ \A k \in (i + 1)..Len(rows) :
                    Abs(FilePath(rows[k], preferMd)) \notin DOMAIN files

C7_Witness ==
    /\ pc = "aborted"
    /\ Len(rows) = 2
    /\ i = 2
    /\ Len(wrote) = 1
    /\ Cardinality(DOMAIN files) = 2

\* C8: a process that completes after a completed process with the same
\* database, output directory and flag leaves the disk as it found it: the
\* same files with the same content and the same manifest.
C8_Reexport ==
    (pc = "done" /\ prev # None /\ prev[1].preferMd = preferMd) =>
        /\ files = prev[1].files
        /\ manifest = prev[1].manifest
        /\ dirs = prev[1].dirs

C8_Witness ==
    /\ pc = "done"
    /\ prev # None
    /\ prev[1].preferMd = preferMd
    /\ Len(rows) = 2
    /\ \E p \in DOMAIN files : files[p] # << >>

\* C9: when export_pages has completed, the manifest is a header line naming
\* the eight columns in order followed by one line per exported page.
C9_Manifest ==
    pc = "done" =>
        /\ manifest # None
        /\ manifest[1].header =
              Some(<<"page_id", "book", "chapter", "name", "slug", "path", "ext",
                     "updated_at">>)
        /\ Len(manifest[1].body) = Len(rows)

IsPrefix(p, q) == Len(p) <= Len(q) /\ SubSeq(q, 1, Len(p)) = p

\* C10: every page file is written strictly inside the output directory, in
\* the directory of its book or of its chapter.
C10_InsideOutDir ==
    \A k \in 1..Len(wrote) :
        /\ IsPrefix(Abs(OutDir), wrote[k])
        /\ Len(wrote[k]) \in {Len(Abs(OutDir)) + 2, Len(Abs(OutDir)) + 3}

====
